---- MODULE Spec2Model ----
(***************************************************************************)
(* A model of SwaggerToSdk.py: the option merger (merge_options,           *)
(* build_autorest_options), the output reconciler (update) on a small file *)
(* system, and the build driver (build_libraries).                         *)
(***************************************************************************)
EXTENDS Integers, Sequences, FiniteSets, TLC

VARIABLES
    global_conf,    \* config["meta"]: a Python dict, key -> value
    local_conf,     \* config["projects"][p]: a Python dict, key -> value
    conf0,          \* ghost: the two configurations as first read
    call,           \* ghost: the call made last, with the arguments it saw
    prev,           \* ghost: the call made before it, with what it returned
    ret,            \* what the last call returned (or raised)
    fs,             \* the file system: path -> "dir" or a file's content
    upd,            \* ghost: the update calls made, each with its outcome
    env,            \* build_libraries: its arguments and the environment
    pc,             \* build_libraries: the step it is at
    idx,            \* build_libraries: the projects of the loop taken so far
    dirty,          \* the SDK working tree differs from HEAD
    effects,        \* the git and GitHub operations made, in order
    temp_dir,       \* the temporary directory exists
    sdk_folder,     \* the cloned SDK folder exists
    error,          \* the exception build_libraries is ending with, or "none"
    IS_TRAVIS,          \* the script runs under Travis
    pulls,              \* GitHub: what get_pull gives for each number
    issues_in_message,  \* the numbers after '#' in the commit message
    issue,              \* get_pr_from_travis_commit_sha: position of the loop
    issue_object,       \* get_pr_from_travis_commit_sha: its local variable
    travis_pc           \* get_pr_from_travis_commit_sha: the step it is at

buildVars == <<env, pc, idx, dirty, effects, temp_dir, sdk_folder, error>>

travisVars == <<IS_TRAVIS, pulls, issues_in_message, issue, issue_object, travis_pc>>

vars == <<global_conf, local_conf, conf0, call, prev, ret, fs, upd, buildVars,
          travisVars>>

\* No build_libraries run is in progress.
NoEnv == [token |-> FALSE, slash |-> FALSE, pr_repo_id |-> FALSE,
          initial_pr |-> FALSE, projects |-> 0]

BuildIdle ==
    /\ env = NoEnv
    /\ pc = "idle"
    /\ idx = 0
    /\ dirty = FALSE
    /\ effects = <<>>
    /\ temp_dir = FALSE
    /\ sdk_folder = FALSE
    /\ error = "none"

\* No get_pr_from_travis_commit_sha call is in progress.
TravisIdle ==
    /\ IS_TRAVIS = FALSE
    /\ pulls = <<>>
    /\ issues_in_message = <<>>
    /\ issue = 0
    /\ issue_object = [t |-> "None"]
    /\ travis_pc = "idle"

----------------------------------------------------------------------------
(* Python values, tagged by type.                                          *)

None == [t |-> "None"]
PyStr(s) == [t |-> "str", s |-> s]
PyBool(b) == [t |-> "bool", b |-> b]
PyList(q) == [t |-> "list", items |-> q]
PySet(S) == [t |-> "set", elems |-> S]
PyDict(f) == [t |-> "dict", d |-> f]
Raised(e) == [t |-> "raise", exc |-> e]

EmptyMap == [k \in {} |-> None]

Elements(q) == {q[i] : i \in DOMAIN q}

\* bool(v): what `v or w` and `if v` test.
Truthy(v) ==
    CASE v.t = "None" -> FALSE
      [] v.t = "str"  -> v.s # ""
      [] v.t = "bool" -> v.b
      [] v.t = "list" -> v.items # <<>>
      [] v.t = "set"  -> v.elems # {}
      [] v.t = "dict" -> DOMAIN v.d # {}

\* dict.get(key): None when the key is absent.
Get(conf, key) == IF key \in DOMAIN conf THEN conf[key] ELSE None

\* str(v) as "{}".format uses it.
Str(v) ==
    CASE v.t = "str"  -> v.s
      [] v.t = "bool" -> IF v.b THEN "True" ELSE "False"
      [] v.t = "None" -> "None"

----------------------------------------------------------------------------
(* merge_options.  The result carries the value and which object it is:    *)
(* the very object held by global_conf ("global"), the one held by         *)
(* local_conf ("local"), or one built by the call ("new").                 *)

\* set(global_keyed_conf).update(local_keyed_conf)
SetUpdate(S, l) ==
    CASE l.t = "list" -> [val |-> PySet(S \cup Elements(l.items)), obj |-> "new"]
      [] l.t = "dict" -> [val |-> PySet(S \cup DOMAIN l.d), obj |-> "new"]
      [] l.t = "str" /\ l.s = "" -> [val |-> PySet(S), obj |-> "new"]
      [] l.t = "bool" -> [val |-> Raised("TypeError"), obj |-> "new"]

\* dict(global_keyed_conf).update(local_keyed_conf)
DictUpdate(g, l) ==
    CASE g.t = "dict" /\ l.t = "dict" ->
            [val |-> PyDict([k \in DOMAIN g.d \cup DOMAIN l.d |->
                                IF k \in DOMAIN l.d THEN l.d[k] ELSE g.d[k]]),
             obj |-> "new"]
      [] g.t = "dict" /\ l.t = "list" ->
            [val |-> IF l.items = <<>> THEN PyDict(g.d) ELSE Raised("ValueError"),
             obj |-> "new"]
      [] g.t = "dict" /\ l.t = "str" ->
            [val |-> IF l.s = "" THEN PyDict(g.d) ELSE Raised("ValueError"),
             obj |-> "new"]
      [] g.t = "dict" /\ l.t = "bool" -> [val |-> Raised("TypeError"), obj |-> "new"]
      [] g.t = "str" ->
            [val |-> IF g.s = "" /\ l.t = "dict" THEN PyDict(l.d) ELSE Raised("ValueError"),
             obj |-> "new"]
      [] g.t = "bool" -> [val |-> Raised("TypeError"), obj |-> "new"]

\* A merge that replaces the global collection by the local one.
merge_options_replace(g_conf, l_conf, key) ==
    LET g == Get(g_conf, key)
        l == Get(l_conf, key)
    IN  IF g = None \/ l = None
        THEN IF Truthy(g) THEN [val |-> g, obj |-> "global"]
             ELSE [val |-> l, obj |-> IF l = None THEN "None" ELSE "local"]
        ELSE [val |-> IF l.t = "list" THEN PySet(Elements(l.items)) ELSE l,
              obj |-> "new"]

merge_options(g_conf, l_conf, key) ==
    LET g == Get(g_conf, key)
        l == Get(l_conf, key)
    IN  IF g = None \/ l = None
        THEN \* return global_keyed_conf or local_keyed_conf
             IF Truthy(g) THEN [val |-> g, obj |-> "global"]
             ELSE [val |-> l, obj |-> IF l = None THEN "None" ELSE "local"]
        ELSE IF g.t = "list"
             THEN SetUpdate(Elements(g.items), l)
             ELSE DictUpdate(g, l)

----------------------------------------------------------------------------
(* build_autorest_options.                                                 *)

\* The option names of the model, in the order Python's str comparison
\* (by code point) puts them: 'A' < 'C' < 'f'.
SortedOptionNames == <<"AddCredentials", "CodeGenerator", "ft">>

StrRank(s) == CHOOSE i \in DOMAIN SortedOptionNames : SortedOptionNames[i] = s

StrLess(a, b) == StrRank(a) < StrRank(b)

RECURSIVE Sorted(_)
Sorted(S) ==
    IF S = {} THEN <<>>
    ELSE LET m == CHOOSE x \in S : \A y \in S : ~StrLess(y, x)
         IN  <<m>> \o Sorted(S \ {m})

\* The keys in the opposite order: what comes out when the sort is lost.
RECURSIVE unsorted_keys(_)
unsorted_keys(d) ==
    IF DOMAIN d = {} THEN <<>>
    ELSE LET m == CHOOSE x \in DOMAIN d : \A y \in DOMAIN d : ~StrLess(x, y)
         IN  <<m>> \o unsorted_keys([k \in DOMAIN d \ {m} |-> d[k]])

\* sorted(list(merged_options.keys()))
sorted_keys(d) == Sorted(DOMAIN d)

\* sep.join(items)
RECURSIVE Join(_, _)
Join(items, sep) ==
    IF items = <<>> THEN ""
    ELSE IF Len(items) = 1 THEN items[1]
    ELSE items[1] \o sep \o Join(Tail(items), sep)

\* A rendering as "-key=value".
FormatOptionEquals(key, value) == "-" \o key \o "=" \o Str(value)

\* "-{} {}".format(key, str(merged_options[key]))
FormatOption(key, value) == "-" \o key \o " " \o Str(value)

\* The call's result: the string returned, and the two configurations as the
\* call leaves them (the item assignment of line 127 writes into whichever
\* object merge_options handed back).
build_autorest_options(language, g_conf, l_conf) ==
    LET m == merge_options(g_conf, l_conf, "autorest_options")
    IN  IF m.val.t = "raise"
        THEN [ret |-> m.val, global_conf |-> g_conf, local_conf |-> l_conf]
        ELSE
        LET merged == IF Truthy(m.val) THEN m
                      ELSE [val |-> PyDict(EmptyMap), obj |-> "new"]
            d == merged.val.d
            inject == "CodeGenerator" \notin DOMAIN d
            final == IF inject
                     THEN [k \in DOMAIN d \cup {"CodeGenerator"} |->
                             IF k = "CodeGenerator" THEN PyStr("Azure." \o language)
                             ELSE d[k]]
                     ELSE d
            keys == sorted_keys(final)
        IN  [ret |-> PyStr(Join([i \in 1..Len(keys) |->
                                    FormatOption(keys[i], final[keys[i]])], " ")),
             global_conf |-> IF inject /\ merged.obj = "global"
                             THEN [g_conf EXCEPT !["autorest_options"] = PyDict(final)]
                             ELSE g_conf,
             local_conf |-> IF inject /\ merged.obj = "local"
                            THEN [l_conf EXCEPT !["autorest_options"] = PyDict(final)]
                            ELSE l_conf]

----------------------------------------------------------------------------
(* The file system update works on.  A path is a sequence of names; the    *)
(* file system maps each existing path to "dir" or to a file's content.    *)
(* The directory holding generated_folder and destination_folder, <<>>,    *)
(* always exists.  os.replace is modelled as POSIX rename(2).              *)

generated_folder == <<"gen">>
destination_folder == <<"sdk">>

IsPrefix(p, q) == Len(p) <= Len(q) /\ SubSeq(q, 1, Len(p)) = p

Parent(p) == SubSeq(p, 1, Len(p) - 1)

Exists(F, p) == p = <<>> \/ p \in DOMAIN F

IsDir(F, p) == p = <<>> \/ (p \in DOMAIN F /\ F[p] = "dir")

\* Path.is_file()
IsFile(F, p) == p \in DOMAIN F /\ F[p] # "dir"

\* p and everything below it.
Under(F, p) == {q \in DOMAIN F : IsPrefix(p, q)}

Restrict(F, D) == [q \in D |-> F[q]]

\* Path.unlink() of a file, shutil.rmtree() of a directory.
Remove(F, p) == Restrict(F, DOMAIN F \ Under(F, p))

\* The components of a glob pattern (pattern.split("/")), for the patterns
\* of the model.
PatternParts(pattern) ==
    CASE pattern = "README.md" -> <<"README.md">>
      [] pattern = "tests" -> <<"tests">>
      [] pattern = "tests/*" -> <<"tests", "*">>
      [] pattern = "*" -> <<"*">>
      [] pattern = "Client" -> <<"Client">>

\* A match that knows no wildcard.
NameMatchesLiteral(part, name) == part = name

\* fnmatch of one path component.
NameMatches(part, name) == part = "*" \/ part = name

\* Path(root).glob(pattern): the existing paths below root that the pattern
\* matches, component by component.
Glob(F, root, pattern) ==
    LET parts == PatternParts(pattern)
    IN  {q \in DOMAIN F :
            /\ IsPrefix(root, q)
            /\ Len(q) = Len(root) + Len(parts)
            /\ \A i \in DOMAIN parts : NameMatches(parts[i], q[Len(root) + i])}

\* Path(src).replace(dst): the file system afterwards and "ok", or the file
\* system unchanged and the error raised.
Replace(F, src, dst) ==
    IF ~Exists(F, src) \/ ~Exists(F, Parent(dst))
        THEN [fs |-> F, err |-> "FileNotFoundError"]
    ELSE IF ~IsDir(F, Parent(dst))
        THEN [fs |-> F, err |-> "NotADirectoryError"]
    ELSE IF src = dst
        THEN [fs |-> F, err |-> "ok"]
    ELSE IF IsPrefix(src, dst)
        THEN [fs |-> F, err |-> "OSError"]
    ELSE IF IsDir(F, src) /\ IsFile(F, dst)
        THEN [fs |-> F, err |-> "NotADirectoryError"]
    ELSE IF IsFile(F, src) /\ IsDir(F, dst)
        THEN [fs |-> F, err |-> "IsADirectoryError"]
    ELSE IF IsDir(F, src) /\ IsDir(F, dst) /\ Under(F, dst) # {dst}
        THEN [fs |-> F, err |-> "OSError"]
    ELSE LET moved == Under(F, src)
             kept == DOMAIN F \ (moved \cup Under(F, dst))
             To(q) == dst \o SubSeq(q, Len(src) + 1, Len(q))
         IN  [fs |-> [q \in kept \cup {To(m) : m \in moved} |->
                        IF q \in kept THEN F[q]
                        ELSE F[CHOOSE m \in moved : To(m) = q]],
              err |-> "ok"]

\* shutil.rmtree(path)
Rmtree(F, p) ==
    IF ~Exists(F, p) THEN [fs |-> F, err |-> "FileNotFoundError"]
    ELSE IF ~IsDir(F, p) THEN [fs |-> F, err |-> "NotADirectoryError"]
    ELSE [fs |-> Remove(F, p), err |-> "ok"]

----------------------------------------------------------------------------
(* The configurations the merger is run on.                                *)

\* The most entries (mapping entries and list items) the two configurations
\* hold together.
MaxConfItems == 2

OptionNames == Elements(SortedOptionNames)
OptionValues == {PyStr("X"), PyBool(TRUE)}
PatternNames == {"README.md", "src/*"}
Languages == {"Python", "Ruby"}
MergeKeys == {"autorest_options", "wrapper_filesOrDirs", "CodeGenerator"}

Absent == [t |-> "absent"]

OptionMaps(n) ==
    UNION {[K -> OptionValues] : K \in {K \in SUBSET OptionNames : Cardinality(K) <= n}}

PatternLists(n) == UNION {[1..k -> PatternNames] : k \in 0..n}

Size(v) ==
    CASE v.t = "dict" -> Cardinality(DOMAIN v.d)
      [] v.t = "list" -> Len(v.items)
      [] OTHER -> 0

\* A configuration holding the parts that are not Absent.
MkConf(parts) == [k \in {k \in DOMAIN parts : parts[k] # Absent} |-> parts[k]]

OptionChoices(n) == {Absent} \cup {PyDict(f) : f \in OptionMaps(n)}
ListChoices(n) == {Absent} \cup {PyList(q) : q \in PatternLists(n)}

NoCall == [fn |-> "none", arg |-> ""]
NoRet == [val |-> None, obj |-> "None"]

MergeInit ==
    \E go \in OptionChoices(MaxConfItems) :
    \E lo \in OptionChoices(MaxConfItems - Size(go)) :
    \E gw \in ListChoices(MaxConfItems - Size(go) - Size(lo)) :
    \E lw \in ListChoices(MaxConfItems - Size(go) - Size(lo) - Size(gw)) :
    \E gc \in {Absent, PyStr("X")} :
        /\ global_conf = MkConf([k \in MergeKeys |->
                CASE k = "autorest_options" -> go
                  [] k = "wrapper_filesOrDirs" -> gw
                  [] k = "CodeGenerator" -> gc])
        /\ local_conf = MkConf([k \in MergeKeys |->
                CASE k = "autorest_options" -> lo
                  [] k = "wrapper_filesOrDirs" -> lw
                  [] k = "CodeGenerator" -> Absent])
        /\ conf0 = [g |-> global_conf, l |-> local_conf]
        /\ call = [fn |-> "none", arg |-> "", g |-> global_conf, l |-> local_conf]
        /\ prev = [call |-> NoCall, ret |-> NoRet]
        /\ ret = NoRet
        /\ fs = EmptyMap
        /\ upd = <<>>
        /\ BuildIdle
        /\ TravisIdle

\* merge_options(global_conf, local_conf, key)
MergeOptionsCall(key) ==
    /\ call' = [fn |-> "merge_options", arg |-> key, g |-> global_conf, l |-> local_conf]
    /\ prev' = [call |-> [fn |-> call.fn, arg |-> call.arg], ret |-> ret]
    /\ ret' = merge_options(global_conf, local_conf, key)
    /\ UNCHANGED <<global_conf, local_conf, conf0, fs, upd, buildVars, travisVars>>

\* build_autorest_options(language, global_conf, local_conf)
BuildAutorestOptionsCall(language) ==
    LET r == build_autorest_options(language, global_conf, local_conf)
    IN  /\ call' = [fn |-> "build_autorest_options", arg |-> language,
                    g |-> global_conf, l |-> local_conf]
        /\ prev' = [call |-> [fn |-> call.fn, arg |-> call.arg], ret |-> ret]
        /\ ret' = [val |-> r.ret, obj |-> "new"]
        /\ global_conf' = r.global_conf
        /\ local_conf' = r.local_conf
        /\ UNCHANGED <<conf0, fs, upd, buildVars, travisVars>>

MergeNext ==
    \/ \E key \in MergeKeys : MergeOptionsCall(key)
    \/ \E language \in Languages : BuildAutorestOptionsCall(language)

SpecMerge == MergeInit /\ [][MergeNext]_vars

----------------------------------------------------------------------------
(* update.  Directory listings and the iteration of a Python set come in   *)
(* no fixed order, so update yields the set of outcomes it can have.       *)

RECURSIVE Perms(_)
Perms(S) ==
    IF S = {} THEN {<<>>}
    ELSE UNION {{<<x>> \o q : q \in Perms(S \ {x})} : x \in S}

\* The orders `for x in v` can take.
IterationOrders(v) ==
    CASE v.t = "list" -> {v.items}
      [] v.t = "set" -> Perms(v.elems)

\* merge_options(...) or []
OrEmptyList(v) == IF Truthy(v) THEN v ELSE PyList(<<>>)

\* Lines 186-188: move one wrapper file or directory to the same relative
\* path under the generated root.
MoveWrapper(F, file_path, root) ==
    LET relative_file_path ==
            SubSeq(file_path, Len(destination_folder) + 1, Len(file_path))
    IN  Replace(F, file_path, root \o relative_file_path)

\* Lines 185-188 for one pattern's matches, taken in any order; the first
\* error ends the call.
RECURSIVE MoveMatches(_, _, _)
MoveMatches(S, matches, root) ==
    IF S.err # "ok" \/ matches = {} THEN {S}
    ELSE UNION {MoveMatches(MoveWrapper(S.fs, m, root), matches \ {m}, root) :
                    m \in matches}

\* Lines 184-188.
RECURSIVE WrapperPhase(_, _, _)
WrapperPhase(S, patterns, root) ==
    IF S.err # "ok" \/ patterns = <<>> THEN {S}
    ELSE UNION {WrapperPhase(T, Tail(patterns), root) :
                    T \in MoveMatches(S, Glob(S.fs, destination_folder, Head(patterns)),
                                      root)}

\* A delete step that removes files and leaves directories alone.
DeleteMatchFilesOnly(F, file_path) ==
    IF IsFile(F, file_path) THEN Restrict(F, DOMAIN F \ {file_path}) ELSE F

\* Lines 192-195.
DeleteMatch(F, file_path) ==
    IF IsFile(F, file_path)
    THEN Restrict(F, DOMAIN F \ {file_path})
    ELSE Remove(F, file_path)

RECURSIVE DeleteMatches(_, _)
DeleteMatches(F, matches) ==
    IF matches = {} THEN F
    ELSE LET m == CHOOSE m \in matches : TRUE
         IN  DeleteMatches(DeleteMatch(F, m), matches \ {m})

\* Lines 190-195.
RECURSIVE DeletePhase(_, _, _)
DeletePhase(F, patterns, root) ==
    IF patterns = <<>> THEN F
    ELSE DeletePhase(DeleteMatches(F, Glob(F, root, Head(patterns))),
                     Tail(patterns), root)

\* A swap that copies the generated root and leaves it in place.
CopyGenerated(F, root) ==
    LET r == Replace(F, root, destination_folder)
    IN  IF r.err # "ok" THEN r ELSE [fs |-> r.fs @@ F, err |-> "ok"]

\* Line 198: client_generated_path.replace(destination_folder)
MoveGenerated(F, root) == Replace(F, root, destination_folder)

\* Lines 190-198, after the wrapper phase ended in S.
FinishUpdate(S, delete_order, root) ==
    IF S.err # "ok" THEN [fs |-> S.fs, err |-> S.err, root |-> root]
    ELSE LET F == DeletePhase(S.fs, delete_order, root)
             r == Rmtree(F, destination_folder)
             m == MoveGenerated(r.fs, root)
         IN  IF r.err # "ok" THEN [fs |-> r.fs, err |-> r.err, root |-> root]
             ELSE [fs |-> m.fs, err |-> m.err, root |-> root]

\* A lookup that lets the global value win.
BaseDirectoryGlobalFirst(g_conf, l_conf) ==
    IF Truthy(Get(g_conf, "generated_relative_base_directory"))
    THEN Get(g_conf, "generated_relative_base_directory")
    ELSE Get(l_conf, "generated_relative_base_directory")

\* Lines 177-178.
BaseDirectory(g_conf, l_conf) ==
    IF Truthy(Get(l_conf, "generated_relative_base_directory"))
    THEN Get(l_conf, "generated_relative_base_directory")
    ELSE Get(g_conf, "generated_relative_base_directory")

\* Lines 180-182: the paths client_generated_path can become; none when
\* next() finds the glob empty.
GeneratedRoots(F, g_conf, l_conf) ==
    LET base == BaseDirectory(g_conf, l_conf)
    IN  IF Truthy(base) THEN Glob(F, generated_folder, base.s)
        ELSE {generated_folder}

update(F, g_conf, l_conf) ==
    LET wrapper_files_or_dirs ==
            OrEmptyList(merge_options(g_conf, l_conf, "wrapper_filesOrDirs").val)
        delete_files_or_dirs ==
            OrEmptyList(merge_options(g_conf, l_conf, "delete_filesOrDirs").val)
        roots == GeneratedRoots(F, g_conf, l_conf)
    IN  IF roots = {}
        THEN {[fs |-> F, err |-> "StopIteration", root |-> <<>>]}
        ELSE UNION {UNION {{FinishUpdate(S, d, root) :
                                S \in WrapperPhase([fs |-> F, err |-> "ok"], w, root)} :
                            <<w, d>> \in IterationOrders(wrapper_files_or_dirs)
                                         \X IterationOrders(delete_files_or_dirs)} :
                    root \in roots}

----------------------------------------------------------------------------
(* The trees and options update is run on.                                 *)

\* The most entries the generated and the destination folder hold together.
MaxEntries == 3
\* The most patterns the two configurations hold together.
MaxPatterns == 2
\* The most update calls made on one file system.
MaxCalls == 2

UpdatePatterns == {"README.md", "tests", "tests/*"}
UpdateKeys == {"wrapper_filesOrDirs", "delete_filesOrDirs",
               "generated_relative_base_directory"}

\* A tree with an optional README.md and an optional tests, which is a file,
\* an empty directory or a directory holding a.py; files hold `content`.
Tree(content, readme, tests) ==
    LET paths == (IF readme THEN {<<"README.md">>} ELSE {})
                 \cup (IF tests # "none" THEN {<<"tests">>} ELSE {})
                 \cup (IF tests = "full" THEN {<<"tests", "a.py">>} ELSE {})
    IN  [q \in paths |->
            IF q = <<"tests">> /\ tests # "file" THEN "dir" ELSE content]

Trees(content) ==
    {Tree(content, r, t) : r \in BOOLEAN, t \in {"none", "file", "dir", "full"}}

\* The directory root holding tree T.
Mount(root, T) ==
    [q \in {root} \cup {root \o p : p \in DOMAIN T} |->
        IF q = root THEN "dir" ELSE T[SubSeq(q, Len(root) + 1, Len(q))]]

\* generated_folder as the generator leaves it: the tree itself, or the tree
\* in a Client directory, with or without an empty directory Other beside it.
GeneratedLayouts(T) ==
    { Mount(generated_folder, T),
      Mount(generated_folder, EmptyMap) @@ Mount(generated_folder \o <<"Client">>, T),
      Mount(generated_folder, EmptyMap) @@ Mount(generated_folder \o <<"Client">>, T)
        @@ Mount(generated_folder \o <<"Other">>, EmptyMap) }

FileSystems ==
    {F \in UNION {{Mount(destination_folder, D) @@ L : L \in GeneratedLayouts(G)} :
                    <<D, G>> \in Trees("wrapper") \X Trees("generated")} :
        Cardinality(DOMAIN F) <= MaxEntries + 2}

NonEmptyLists(n) == {PyList(q) : q \in UNION {[1..k -> UpdatePatterns] : k \in 1..n}}

ItemCount(v) == IF v.t = "list" THEN Len(v.items) ELSE IF v.t = "str" THEN 1 ELSE 0

UpdateInit ==
    \E gw \in {Absent} \cup NonEmptyLists(MaxPatterns) :
    \E lw \in {Absent} \cup NonEmptyLists(MaxPatterns - ItemCount(gw)) :
    \E gd \in {Absent} \cup NonEmptyLists(MaxPatterns - ItemCount(gw) - ItemCount(lw)) :
    \E ld \in {Absent} \cup NonEmptyLists(MaxPatterns - ItemCount(gw) - ItemCount(lw)
                                          - ItemCount(gd)) :
    \E gb \in {Absent, PyStr("*")} :
    \E lb \in {Absent, PyStr(""), PyStr("Client")} :
        /\ ItemCount(gw) + ItemCount(lw) + ItemCount(gd) + ItemCount(ld)
             + ItemCount(gb) + ItemCount(lb) <= MaxPatterns
        /\ global_conf = MkConf([k \in UpdateKeys |->
                CASE k = "wrapper_filesOrDirs" -> gw
                  [] k = "delete_filesOrDirs" -> gd
                  [] k = "generated_relative_base_directory" -> gb])
        /\ local_conf = MkConf([k \in UpdateKeys |->
                CASE k = "wrapper_filesOrDirs" -> lw
                  [] k = "delete_filesOrDirs" -> ld
                  [] k = "generated_relative_base_directory" -> lb])
        /\ conf0 = [g |-> global_conf, l |-> local_conf]
        /\ call = [fn |-> "none", arg |-> "", g |-> global_conf, l |-> local_conf]
        /\ prev = [call |-> NoCall, ret |-> NoRet]
        /\ ret = NoRet
        /\ fs \in FileSystems
        /\ upd = <<>>
        /\ BuildIdle
        /\ TravisIdle

\* update(generated_folder, destination_folder, global_conf, local_conf)
Update ==
    /\ Len(upd) < MaxCalls
    /\ \E o \in update(fs, global_conf, local_conf) :
        /\ fs' = o.fs
        /\ upd' = Append(upd, [result |-> o.err, root |-> o.root, pre |-> fs])
    /\ UNCHANGED <<global_conf, local_conf, conf0, call, prev, ret, buildVars, travisVars>>

UpdateNext == Update

SpecUpdate == UpdateInit /\ [][UpdateNext]_vars

----------------------------------------------------------------------------
(* build_libraries, step by step.  The trees and the options of a project  *)
(* are not tracked here: a project's generation and update either complete *)
(* (changing the working tree or leaving it as it was) or raise.           *)

\* The most projects the configuration holds.
MaxProjects == 2

BuildInit ==
    /\ env \in [token : BOOLEAN, slash : BOOLEAN, pr_repo_id : BOOLEAN,
                initial_pr : BOOLEAN, projects : 0..MaxProjects]
    /\ pc = "start"
    /\ idx = 0
    /\ dirty = FALSE
    /\ effects = <<>>
    /\ temp_dir = FALSE
    /\ sdk_folder = FALSE
    /\ error = "none"
    /\ global_conf = EmptyMap
    /\ local_conf = EmptyMap
    /\ conf0 = [g |-> EmptyMap, l |-> EmptyMap]
    /\ call = [fn |-> "none", arg |-> "", g |-> EmptyMap, l |-> EmptyMap]
    /\ prev = [call |-> NoCall, ret |-> NoRet]
    /\ ret = NoRet
    /\ fs = EmptyMap
    /\ upd = <<>>
    /\ TravisIdle

otherVars == <<global_conf, local_conf, conf0, call, prev, ret, fs, upd, travisVars>>

\* A step that completes and goes on to `next`, having made the operations ops.
Step(next, ops) ==
    /\ pc' = next
    /\ effects' = effects \o ops
    /\ UNCHANGED <<env, idx, dirty, temp_dir, sdk_folder, error, otherVars>>

\* A step that raises inside the with block: the exception leaves through
\* the two context managers.
Raise(exc) ==
    /\ pc' = "exit"
    /\ error' = exc
    /\ UNCHANGED <<env, idx, dirty, effects, temp_dir, sdk_folder, otherVars>>

\* Line 467, get_full_sdk_id: an id without '/' is completed with the login
\* of the token's user, which GitHub gives only to a token.
GetFullSdkId ==
    /\ pc = "start"
    /\ IF env.slash \/ env.token
       THEN /\ pc' = "clone"
            /\ UNCHANGED error
       ELSE /\ pc' = "done"
            /\ error' = "GithubException"
    /\ UNCHANGED <<env, idx, dirty, effects, temp_dir, sdk_folder, otherVars>>

\* Lines 469-470: the temporary directory is made and the SDK cloned into it.
CloneOk ==
    /\ pc = "clone"
    /\ pc' = "checkout"
    /\ temp_dir' = TRUE
    /\ sdk_folder' = TRUE
    /\ UNCHANGED <<env, idx, dirty, effects, error, otherVars>>

\* Lines 469-470, 433: the clone fails; the temporary directory is removed.
CloneFails ==
    /\ pc = "clone"
    /\ pc' = "done"
    /\ error' = "GitCommandError"
    /\ UNCHANGED <<env, idx, dirty, effects, temp_dir, sdk_folder, otherVars>>

\* Lines 474-479: with a token, the destination branch exists and is
\* checked out.
CheckoutDestinationBranch ==
    /\ pc = "checkout" /\ env.token
    /\ Step("sync_fork", <<"checkout_destination">>)

\* Lines 480-482 and 486: the base branch is checked out.
CheckoutBaseBranch ==
    /\ pc = "checkout"
    /\ Step(IF env.token THEN "sync_fork" ELSE "read_config", <<"checkout_base">>)

\* Lines 482 and 486: the base branch cannot be checked out.
CheckoutFails ==
    /\ pc = "checkout"
    /\ Raise("GitCommandError")

\* Lines 383-385, sync_fork: upstream has no branch of that name.
SyncForkNothingToMerge ==
    /\ pc = "sync_fork"
    /\ Step("read_config", <<"fetch_upstream">>)

\* Lines 387-391, sync_fork: rebase onto upstream and push.
SyncForkRebaseAndPush ==
    /\ pc = "sync_fork"
    /\ Step("read_config", <<"fetch_upstream", "rebase", "push_sync">>)

\* Lines 488-497: the configuration is read and AutoRest installed.
ReadConfigOk ==
    /\ pc = "read_config"
    /\ Step("projects", <<>>)

\* Lines 488-497: the configuration or AutoRest is missing.
ReadConfigFails ==
    /\ pc = "read_config"
    /\ Raise("ValueError")

InLoop == pc = "projects" /\ idx < env.projects

\* Lines 500-506: the project is filtered out.
SkipProject ==
    /\ InLoop
    /\ idx' = idx + 1
    /\ UNCHANGED <<env, pc, dirty, effects, temp_dir, sdk_folder, error, otherVars>>

\* Lines 512-516.
MissingSwaggerFile ==
    /\ InLoop
    /\ Raise("ValueError: Swagger file does not exist")

\* A destination folder looked for only once the generator has run.
MissingDestFolderAfterGenerate ==
    /\ InLoop
    /\ effects' = Append(effects, "generate")
    /\ pc' = "exit"
    /\ error' = "ValueError: Dest folder does not exist"
    /\ UNCHANGED <<env, idx, dirty, temp_dir, sdk_folder, otherVars>>

\* Lines 518-523.
MissingDestFolder ==
    /\ InLoop
    /\ Raise("ValueError: Dest folder does not exist")

\* Lines 526-528, 146-153: AutoRest exits with an error.
GeneratorFails ==
    /\ InLoop
    /\ effects' = Append(effects, "generate")
    /\ pc' = "exit"
    /\ error' = "CalledProcessError"
    /\ UNCHANGED <<env, idx, dirty, temp_dir, sdk_folder, otherVars>>

\* Line 529: update raises; it may have changed the working tree before.
UpdateFails ==
    /\ InLoop
    /\ effects' = effects \o <<"generate", "update">>
    /\ pc' = "exit"
    /\ error' = "OSError"
    /\ dirty' \in {dirty, TRUE}
    /\ UNCHANGED <<env, idx, temp_dir, sdk_folder, otherVars>>

\* Lines 525-529: the project is generated and reconciled; the new tree
\* differs from the one committed (changed) or not.
ProjectDone(changed) ==
    /\ InLoop
    /\ effects' = effects \o <<"generate", "update">>
    /\ idx' = idx + 1
    /\ dirty' = (dirty \/ changed)
    /\ UNCHANGED <<env, pc, temp_dir, sdk_folder, error, otherVars>>

\* Line 499: the loop ends.
LoopDone ==
    /\ pc = "projects" /\ idx = env.projects
    /\ Step("publish", <<>>)

\* A do_commit that commits whatever the staged diff is.
do_commit_always(modified) ==
    [ops |-> <<"add", "checkout_branch", "commit">>, ret |-> TRUE]

\* do_commit: stage everything; without a staged diff return False, else
\* check out the branch and commit.
do_commit(modified) ==
    IF ~modified THEN [ops |-> <<"add">>, ret |-> FALSE]
    ELSE [ops |-> <<"add", "checkout_branch", "commit">>, ret |-> TRUE]

\* add_comment_to_initial_pr: a comment, when there is an initial pull request.
add_comment_to_initial_pr(comment) ==
    IF env.token /\ env.initial_pr THEN <<comment>> ELSE <<>>

\* Lines 538-539.
SkipCommit ==
    /\ pc = "publish" /\ ~env.token
    /\ Step("exit", <<>>)

\* Lines 531-532, 536-537.
Commit ==
    /\ pc = "publish" /\ env.token
    /\ LET r == do_commit(dirty)
       IN  IF r.ret THEN Step("push", r.ops)
           ELSE Step("exit", r.ops \o add_comment_to_initial_pr("comment_no_modification"))

\* Lines 236-238, do_commit: the checkout or the commit fails.
CommitFails ==
    /\ pc = "publish" /\ env.token /\ dirty
    /\ pc' = "exit"
    /\ error' = "GitCommandError"
    /\ effects' = Append(effects, "add")
    /\ UNCHANGED <<env, idx, dirty, temp_dir, sdk_folder, otherVars>>

\* Line 533.
PushOk ==
    /\ pc = "push"
    /\ Step(IF env.pr_repo_id THEN "do_pr" ELSE "exit", <<"push_branch">>)

\* Line 533: the push is rejected.
PushFails ==
    /\ pc = "push"
    /\ Raise("GitCommandError")

\* Lines 267-280, do_pr: the pull request is created and announced.
CreatePull ==
    /\ pc = "do_pr"
    /\ Step("exit", <<"create_pull">> \o add_comment_to_initial_pr("comment_sdk_pr"))

\* Lines 273-276, do_pr: the pull request exists already.
PullAlreadyExists ==
    /\ pc = "do_pr"
    /\ Step("exit", <<>>)

\* Line 277, do_pr: GitHub refuses the pull request.
CreatePullFails ==
    /\ pc = "do_pr"
    /\ Raise("GithubException")

\* An exit whose cleanup is skipped when an exception is passing through.
ExitWithoutFinally ==
    /\ pc = "exit"
    /\ pc' = "done"
    /\ sdk_folder' = (error # "none")
    /\ temp_dir' = (error # "none")
    /\ UNCHANGED <<env, idx, dirty, effects, error, otherVars>>

\* Lines 438-440 and 469: leaving the with block removes the SDK folder and
\* the temporary directory.
ExitWith ==
    /\ pc = "exit"
    /\ pc' = "done"
    /\ sdk_folder' = FALSE
    /\ temp_dir' = FALSE
    /\ UNCHANGED <<env, idx, dirty, effects, error, otherVars>>

BuildNext ==
    \/ GetFullSdkId
    \/ CloneOk
    \/ CloneFails
    \/ CheckoutDestinationBranch
    \/ CheckoutBaseBranch
    \/ CheckoutFails
    \/ SyncForkNothingToMerge
    \/ SyncForkRebaseAndPush
    \/ ReadConfigOk
    \/ ReadConfigFails
    \/ SkipProject
    \/ MissingSwaggerFile
    \/ MissingDestFolder
    \/ GeneratorFails
    \/ UpdateFails
    \/ \E changed \in BOOLEAN : ProjectDone(changed)
    \/ LoopDone
    \/ SkipCommit
    \/ Commit
    \/ CommitFails
    \/ PushOk
    \/ PushFails
    \/ CreatePull
    \/ PullAlreadyExists
    \/ CreatePullFails
    \/ ExitWith

SpecBuild == BuildInit /\ [][BuildNext]_vars

----------------------------------------------------------------------------
(* get_pr_from_travis_commit_sha: the pull request named in the commit     *)
(* message.                                                                *)

MaxIssues == 2
MaxPulls == 2

PullNumbers == 1..MaxPulls

\* What github_repo.get_pull(n) meets: a merged pull request, one that is
\* not merged, or a number that is no pull request (the lookup raises).
PullOutcomes == {"merged", "unmerged", "raises"}

PullRequest(n, merged) == [t |-> "PullRequest", number |-> n, merged |-> merged]

\* re.findall('#([\\d]+)', commit_message): the numbers, in order.
IssueLists == UNION {[1..n -> PullNumbers] : n \in 0..MaxIssues}

TravisInit ==
    /\ IS_TRAVIS \in BOOLEAN
    /\ pulls \in [PullNumbers -> PullOutcomes]
    /\ issues_in_message \in IssueLists
    /\ issue = 0
    /\ issue_object = None
    /\ travis_pc = "start"
    /\ BuildIdle
    /\ global_conf = EmptyMap
    /\ local_conf = EmptyMap
    /\ conf0 = [g |-> EmptyMap, l |-> EmptyMap]
    /\ call = [fn |-> "none", arg |-> "", g |-> EmptyMap, l |-> EmptyMap]
    /\ prev = [call |-> NoCall, ret |-> NoRet]
    /\ ret = NoRet
    /\ fs = EmptyMap
    /\ upd = <<>>

notTravisVars == <<global_conf, local_conf, conf0, call, prev, ret, fs, upd, buildVars>>

\* Lines 311-312: not under Travis, return None.
NotTravis ==
    /\ travis_pc = "start" /\ ~IS_TRAVIS
    /\ travis_pc' = "returned"
    /\ UNCHANGED <<IS_TRAVIS, pulls, issues_in_message, issue, issue_object, notTravisVars>>

\* Lines 313-320: the commit is read and its message searched.
ReadCommitMessage ==
    /\ travis_pc = "start" /\ IS_TRAVIS
    /\ travis_pc' = "loop"
    /\ issue' = 1
    /\ issue_object' = None
    /\ UNCHANGED <<IS_TRAVIS, pulls, issues_in_message, notTravisVars>>

InIssueLoop == travis_pc = "loop" /\ issue \in DOMAIN issues_in_message

\* Lines 324-327: the pull request is found and is merged: break.
GetPullMerged ==
    /\ InIssueLoop
    /\ pulls[issues_in_message[issue]] = "merged"
    /\ issue_object' = PullRequest(issues_in_message[issue], TRUE)
    /\ travis_pc' = "return"
    /\ UNCHANGED <<IS_TRAVIS, pulls, issues_in_message, issue, notTravisVars>>

\* Lines 324-326: the pull request is found and is not merged: continue.
GetPullUnmerged ==
    /\ InIssueLoop
    /\ pulls[issues_in_message[issue]] = "unmerged"
    /\ issue_object' = PullRequest(issues_in_message[issue], FALSE)
    /\ issue' = issue + 1
    /\ UNCHANGED <<IS_TRAVIS, pulls, issues_in_message, travis_pc, notTravisVars>>

\* Lines 324, 328-329: get_pull raises before the assignment; the
\* exception is swallowed.
GetPullRaises ==
    /\ InIssueLoop
    /\ pulls[issues_in_message[issue]] = "raises"
    /\ issue' = issue + 1
    /\ UNCHANGED <<IS_TRAVIS, pulls, issues_in_message, issue_object, travis_pc, notTravisVars>>

\* Line 321: the list is exhausted.
IssueLoopDone ==
    /\ travis_pc = "loop" /\ issue = Len(issues_in_message) + 1
    /\ travis_pc' = "return"
    /\ UNCHANGED <<IS_TRAVIS, pulls, issues_in_message, issue, issue_object, notTravisVars>>

\* Lines 330-332: return issue_object.
ReturnIssueObject ==
    /\ travis_pc = "return"
    /\ travis_pc' = "returned"
    /\ UNCHANGED <<IS_TRAVIS, pulls, issues_in_message, issue, issue_object, notTravisVars>>

TravisNext ==
    \/ NotTravis
    \/ ReadCommitMessage
    \/ GetPullMerged
    \/ GetPullUnmerged
    \/ GetPullRaises
    \/ IssueLoopDone
    \/ ReturnIssueObject

SpecTravis == TravisInit /\ [][TravisNext]_vars

----------------------------------------------------------------------------
(* Claims about the option merger, checked under SpecMerge.                *)

IsMerge == call.fn = "merge_options"
IsBuild == call.fn = "build_autorest_options"

\* C2 (as claimed): merge_options returns the other side's value unchanged
\* when the key is absent from one side, whatever that value is, and None
\* when it is absent from both.
C2_AbsentSideReturnsOther ==
    IsMerge =>
        /\ call.arg \notin DOMAIN call.l => ret.val = Get(call.g, call.arg)
        /\ call.arg \notin DOMAIN call.g => ret.val = Get(call.l, call.arg)

\* C3: with the key on both sides, a list-typed global value merges to the
\* set union of the two lists (every element once, none lost), and a
\* mapping-typed one to the global mapping overlaid with the local one.
C3_UnionWithLocalPrecedence ==
    (IsMerge /\ call.arg \in DOMAIN call.g /\ call.arg \in DOMAIN call.l) =>
        LET g == call.g[call.arg]
            l == call.l[call.arg]
        IN  /\ (g.t = "list" /\ l.t = "list") =>
                  /\ ret.val.t = "set"
                  /\ ret.val.elems = Elements(g.items) \cup Elements(l.items)
            /\ (g.t = "dict" /\ l.t = "dict") =>
                  /\ ret.val.t = "dict"
                  /\ DOMAIN ret.val.d = DOMAIN g.d \cup DOMAIN l.d
                  /\ \A k \in DOMAIN l.d : ret.val.d[k] = l.d[k]
                  /\ \A k \in DOMAIN g.d \ DOMAIN l.d : ret.val.d[k] = g.d[k]

\* C3 witness: a list merge with a global-only and a local-only element.
C3_Witness ==
    /\ IsMerge /\ call.arg = "wrapper_filesOrDirs"
    /\ call.arg \in DOMAIN call.g /\ call.arg \in DOMAIN call.l
    /\ Elements(call.g[call.arg].items) = {"README.md"}
    /\ Elements(call.l[call.arg].items) = {"src/*"}
    /\ ret.val = PySet({"README.md", "src/*"})

\* C4 (as claimed): no sequence of merge_options and build_autorest_options
\* calls changes global_conf or a project's local_conf.
C4_InputsNeverMutated ==
    /\ global_conf = conf0.g
    /\ local_conf = conf0.l

\* The flags build_autorest_options is to render: the local entries, the
\* global entries the local mapping does not name, and the default
\* CodeGenerator when neither names one.
C5_Flags(language, g_conf, l_conf) ==
    LET go == IF "autorest_options" \in DOMAIN g_conf
              THEN g_conf["autorest_options"].d ELSE EmptyMap
        lo == IF "autorest_options" \in DOMAIN l_conf
              THEN l_conf["autorest_options"].d ELSE EmptyMap
    IN  [k \in DOMAIN go \cup DOMAIN lo \cup {"CodeGenerator"} |->
            IF k \in DOMAIN lo THEN lo[k]
            ELSE IF k \in DOMAIN go THEN go[k]
            ELSE PyStr("Azure." \o language)]

\* The flags of f named in names[i..], each as "-key value", in that order,
\* a single space between two of them.
RECURSIVE C5_Render(_, _, _)
C5_Render(f, names, first) ==
    IF names = <<>> THEN ""
    ELSE IF Head(names) \notin DOMAIN f THEN C5_Render(f, Tail(names), first)
    ELSE (IF first THEN "" ELSE " ") \o "-" \o Head(names) \o " "
            \o Str(f[Head(names)]) \o C5_Render(f, Tail(names), FALSE)

\* C5: build_autorest_options returns the merged flags, with the default
\* CodeGenerator when none is given, as "-key value" items in ascending key
\* order joined by single spaces; a second call with the same arguments
\* returns the same string.
C5_SortedFlagString ==
    IsBuild =>
        /\ ret.val = PyStr(C5_Render(C5_Flags(call.arg, call.g, call.l),
                                      SortedOptionNames, TRUE))
        /\ (prev.call.fn = "build_autorest_options" /\ prev.call.arg = call.arg)
              => ret.val = prev.ret.val

\* C5 witness: the same call made twice, over flags from both sides around
\* the injected default.
C5_Witness ==
    /\ IsBuild /\ call.arg = "Python"
    /\ prev.call = [fn |-> "build_autorest_options", arg |-> "Python"]
    /\ ret.val = PyStr("-AddCredentials X -CodeGenerator Azure.Python -ft True")
    /\ "autorest_options" \in DOMAIN conf0.g /\ "autorest_options" \in DOMAIN conf0.l

\* The example: global options with a top-level CodeGenerator, local empty.
ExampleGlobal ==
    [k \in {"wrapper_filesOrDirs", "CodeGenerator"} |->
        IF k = "CodeGenerator" THEN PyStr("X") ELSE PyList(<<"README.md">>)]

IsExample == call.g = ExampleGlobal /\ call.l = EmptyMap

\* C6 (as claimed): on the example the merged CodeGenerator is "X" and the
\* flag string is "-CodeGenerator X".
C6_ExampleFlagIsX ==
    IsExample =>
        /\ (IsMerge /\ call.arg = "CodeGenerator") => ret.val = PyStr("X")
        /\ IsBuild => ret.val = PyStr("-CodeGenerator X")

\* C6 (amended): on the example the merged CodeGenerator is "X", and the
\* flag string, which is built from the "autorest_options" entry alone, is
\* "-CodeGenerator Azure.<language>".
C6_ExampleFlagIsDefault ==
    IsExample =>
        /\ (IsMerge /\ call.arg = "CodeGenerator") => ret.val = PyStr("X")
        /\ IsBuild => ret.val = PyStr("-CodeGenerator Azure." \o call.arg)

\* C6 witness: on the example, the merge of CodeGenerator gave "X" and the
\* flag string was built next.
C6_Witness ==
    /\ IsExample /\ IsBuild
    /\ prev.call = [fn |-> "merge_options", arg |-> "CodeGenerator"]
    /\ prev.ret.val = PyStr("X")

----------------------------------------------------------------------------
(* Claims about update, checked under SpecUpdate.                          *)

LastUpdate == upd[Len(upd)]
Completed == upd # <<>> /\ LastUpdate.result = "ok"

\* The tree at root: relative path -> node, <<>> being root itself.
Subtree(F, root) ==
    [p \in {SubSeq(q, Len(root) + 1, Len(q)) : q \in Under(F, root)} |-> F[root \o p]]

\* All patterns the two configurations give for a key.
AllPatterns(key) ==
    (IF key \in DOMAIN global_conf THEN Elements(global_conf[key].items) ELSE {})
    \cup (IF key \in DOMAIN local_conf THEN Elements(local_conf[key].items) ELSE {})

\* A relative path matches a pattern; it or a directory above it does.
RelMatches(pattern, p) ==
    /\ Len(p) = Len(PatternParts(pattern))
    /\ \A i \in DOMAIN p : NameMatches(PatternParts(pattern)[i], p[i])

Covered(patterns, p) ==
    \E pattern \in patterns : \E n \in 1..Len(p) : RelMatches(pattern, SubSeq(p, 1, n))

\* G with the entries of D that W covers laid over it.
Overlaid(G, D, W) ==
    LET over == {p \in DOMAIN D : Covered(W, p)}
    IN  [p \in DOMAIN G \cup over |-> IF p \in over THEN D[p] ELSE G[p]]

\* T without the entries X covers.
Without(T, X) == Restrict(T, {p \in DOMAIN T : ~Covered(X, p)})

\* C1 (as claimed): a completed update leaves (G minus the entries matching
\* X) with the entries of D matching W laid over it.
C1_DeleteThenOverlay ==
    Completed =>
        Subtree(fs, destination_folder) =
            Overlaid(Without(Subtree(LastUpdate.pre, LastUpdate.root),
                             AllPatterns("delete_filesOrDirs")),
                     Subtree(LastUpdate.pre, destination_folder),
                     AllPatterns("wrapper_filesOrDirs"))

\* C1 (amended): a completed update leaves G with the entries of D matching
\* W (a matched directory with all it holds) laid over it, minus the entries
\* of that tree matching X, wrapper entries included; nothing else of D
\* remains.
C1_OverlayThenDelete ==
    Completed =>
        Subtree(fs, destination_folder) =
            Without(Overlaid(Subtree(LastUpdate.pre, LastUpdate.root),
                             Subtree(LastUpdate.pre, destination_folder),
                             AllPatterns("wrapper_filesOrDirs")),
                    AllPatterns("delete_filesOrDirs"))

\* C1 witness: a completed update that kept a wrapper README.md and deleted
\* the generated tests/a.py.
C1_Witness ==
    /\ Completed
    /\ (LastUpdate.root \o <<"tests", "a.py">>) \in DOMAIN LastUpdate.pre
    /\ (destination_folder \o <<"README.md">>) \in DOMAIN fs
    /\ fs[destination_folder \o <<"README.md">>] = "wrapper"
    /\ (destination_folder \o <<"tests", "a.py">>) \notin DOMAIN fs

\* The root the call before last used was the only one it could use.
OnlyRoot(u) == GeneratedRoots(u.pre, global_conf, local_conf) = {u.root}

\* C7 (as claimed): once an update has completed, the next update on the
\* same generated_folder fails.
C7_SecondUpdateFails ==
    \A i \in 1..(Len(upd) - 1) : upd[i].result = "ok" => upd[i + 1].result # "ok"

\* C7 (amended): once an update has completed whose generated root was
\* generated_folder itself or the only match of the base-directory pattern,
\* the next update on the same generated_folder fails.
C7_SecondUpdateFailsWhenRootConsumed ==
    \A i \in 1..(Len(upd) - 1) :
        (upd[i].result = "ok" /\ OnlyRoot(upd[i])) => upd[i + 1].result # "ok"

\* C7 witness: a completed update on generated_folder itself, then a failed
\* one.
C7_Witness ==
    /\ Len(upd) = 2
    /\ upd[1].result = "ok" /\ upd[1].root = generated_folder
    /\ upd[2].result = "FileNotFoundError"

HasTestsDir(u) == IsDir(u.pre, u.root \o <<"tests">>) /\ u.root # <<>>

\* C8 (as claimed): with 'tests/*' in the delete list and a tests directory
\* in the generated tree, the result has no tests directory.
C8_NoTestsDirectory ==
    (Completed /\ "tests/*" \in AllPatterns("delete_filesOrDirs")
        /\ HasTestsDir(LastUpdate))
    => (destination_folder \o <<"tests">>) \notin DOMAIN fs

\* C8 (amended): with 'tests/*' in the delete list and a tests directory in
\* the generated tree, the result has nothing inside tests; the directory
\* itself stays, empty, unless a delete pattern matches tests itself.
C8_TestsDirectoryEmptied ==
    (Completed /\ "tests/*" \in AllPatterns("delete_filesOrDirs")
        /\ HasTestsDir(LastUpdate))
    => /\ Under(fs, destination_folder \o <<"tests">>)
            \subseteq {destination_folder \o <<"tests">>}
       /\ (~Covered(AllPatterns("delete_filesOrDirs"), <<"tests">>))
            => IsDir(fs, destination_folder \o <<"tests">>)

\* C8 witness: a generated tests/a.py deleted, the tests directory left.
C8_Witness ==
    /\ Completed /\ "tests/*" \in AllPatterns("delete_filesOrDirs")
    /\ (LastUpdate.root \o <<"tests", "a.py">>) \in DOMAIN LastUpdate.pre
    /\ Under(fs, destination_folder \o <<"tests">>) = {destination_folder \o <<"tests">>}

BaseKey == "generated_relative_base_directory"

\* What a call whose base-directory pattern is `base` must have done.
RootResolved(u, base, matches) ==
    IF base = None THEN u.root = generated_folder
    ELSE IF matches = {} THEN u.result = "StopIteration" /\ fs = u.pre
    ELSE u.root \in matches

----------------------------------------------------------------------------
(* Claims about build_libraries, checked under SpecBuild.                  *)

Before(i, ops) == \E j \in 1..(i - 1) : effects[j] \in ops

\* The run staged everything and found no staged diff.
EmptyDiff == env.token /\ ~dirty /\ \E i \in DOMAIN effects : effects[i] = "add"

Pushes == {"push_sync", "push_branch"}
Outward == Pushes \cup {"create_pull", "comment_no_modification", "comment_sdk_pr"}

\* C10 (as claimed): after staging found no diff, no commit, checkout, push
\* or pull request follows, and the run's only outward effect is the 'No
\* modification' comment; a push comes only after a commit, a pull request
\* only after a push.
C10_OnlyTheComment ==
    /\ EmptyDiff =>
        /\ \A i \in DOMAIN effects :
              Before(i, {"add"}) => effects[i] = "comment_no_modification"
        /\ \A i \in DOMAIN effects :
              effects[i] \in Outward => effects[i] = "comment_no_modification"
    /\ \A i \in DOMAIN effects :
        /\ effects[i] \in Pushes => Before(i, {"commit"})
        /\ effects[i] = "create_pull" => Before(i, Pushes)

\* C10 (amended): after staging found no diff, no commit, checkout, push or
\* pull request follows, and the run's only outward effects are the 'No
\* modification' comment and the push sync_fork may have made before the
\* projects were generated; the push of the branch comes only after the
\* commit, a pull request only after that push.
C10_OnlyTheCommentAfterStaging ==
    /\ EmptyDiff =>
        /\ \A i \in DOMAIN effects :
              Before(i, {"add"}) => effects[i] = "comment_no_modification"
        /\ \A i \in DOMAIN effects :
              effects[i] \in Outward =>
                \/ effects[i] = "comment_no_modification"
                \/ effects[i] = "push_sync" /\ ~Before(i, {"generate", "add"})
    /\ \A i \in DOMAIN effects :
        /\ effects[i] = "push_branch" => Before(i, {"commit"})
        /\ effects[i] = "create_pull" => Before(i, {"push_branch"})

\* C10 witness: a finished run that generated a project, found no diff and
\* left the comment.
C10_Witness ==
    /\ pc = "done" /\ error = "none" /\ EmptyDiff
    /\ \E i \in DOMAIN effects : effects[i] = "generate"
    /\ effects[Len(effects)] = "comment_no_modification"

Count(op) == Cardinality({i \in DOMAIN effects : effects[i] = op})

\* What a run publishes: commits, pushes, pull requests and comments.
Publishing == Outward \cup {"commit"}

\* C11 (as claimed): without a token, whether the SDK id is a bare name or
\* 'owner/repo', build_libraries makes no commit, push, pull request or
\* comment, does not raise for want of the token (GithubException is what
\* GitHub's refusal raises; a failing clone, checkout, configuration,
\* generator or reconciliation raises its own error), and a run that ends
\* without error has gone through every project, generating and then
\* reconciling each one it did not filter out.
C11_NoTokenRunsWithoutPublishing ==
    ~env.token =>
        /\ \A i \in DOMAIN effects : effects[i] \notin Publishing
        /\ error # "GithubException"
        /\ (pc = "done" /\ error = "none") =>
              /\ idx = env.projects
              /\ Count("generate") = Count("update")

\* The steps made inside the with block of build_libraries.
InsideWith == {"checkout", "sync_fork", "read_config", "projects", "publish",
               "push", "do_pr", "exit"}

\* C12: from the clone to the end of the with block the temporary directory
\* and the cloned SDK folder exist, and when build_libraries has returned or
\* raised, whatever step raised, both have been removed.
C12_RemovedOnEveryExit ==
    /\ pc \in InsideWith => (temp_dir /\ sdk_folder)
    /\ pc = "done" => (~temp_dir /\ ~sdk_folder)

\* C12 witness: a run that cloned, generated, failed in the generator and
\* has ended with both directories removed.
C12_Witness ==
    /\ pc = "done" /\ error = "CalledProcessError"
    /\ Count("generate") > 0
    /\ ~temp_dir /\ ~sdk_folder

\* The errors raised while a project is processed (lines 512-529).
MissingInput == {"ValueError: Swagger file does not exist",
                 "ValueError: Dest folder does not exist"}
ProjectFailures == MissingInput \cup {"CalledProcessError", "OSError"}

CountUpTo(n, op) == Cardinality({i \in 1..n : effects[i] = op})

\* One project at a time: each generation is followed by its reconciliation
\* before the next generation starts.
OneAtATime ==
    \A n \in 0..Len(effects) :
        CountUpTo(n, "generate") - CountUpTo(n, "update") \in {0, 1}

\* What a failure while processing a project leaves of the loop: the run is
\* ending, the failing project was not generated when its swagger file or
\* destination folder is missing, and the last generation or reconciliation
\* made is the failing one.
LoopEndedAtFailure ==
    /\ pc \in {"exit", "done"}
    /\ error \in MissingInput => Count("generate") = Count("update")
    /\ error = "CalledProcessError" =>
          /\ effects[Len(effects)] = "generate"
          /\ Count("generate") = Count("update") + 1
    /\ error = "OSError" =>
          /\ effects[Len(effects)] = "update"
          /\ Count("generate") = Count("update")

\* C13 (as claimed): projects are processed one at a time, and a failure
\* while processing one ends the run: no generator for a project whose
\* swagger file or destination folder is missing, no later project
\* generated or reconciled, and no commit, push, pull request or comment in
\* that run.
C13_FailureEndsRun ==
    /\ OneAtATime
    /\ error \in ProjectFailures =>
          /\ LoopEndedAtFailure
          /\ \A i \in DOMAIN effects :
                effects[i] \notin Publishing \cup {"add", "checkout_branch"}

\* C13 (amended): as claimed, except that the run may hold the push
\* sync_fork made before the first project was generated; nothing is
\* staged, committed, pushed to the destination branch, requested or
\* commented.
C13_FailureEndsRunAfterSync ==
    /\ OneAtATime
    /\ error \in ProjectFailures =>
          /\ LoopEndedAtFailure
          /\ \A i \in DOMAIN effects :
                effects[i] \in Publishing \cup {"add", "checkout_branch"} =>
                    effects[i] = "push_sync" /\ ~Before(i, {"generate"})

\* C13 witness: with a token, a run that synchronised the fork, generated
\* and reconciled a first project, found the destination folder of the
\* second missing and has ended.
C13_Witness ==
    /\ pc = "done" /\ error = "ValueError: Dest folder does not exist"
    /\ env.token /\ idx = 1
    /\ Count("push_sync") = 1
    /\ Count("generate") = 1 /\ Count("update") = 1

----------------------------------------------------------------------------
(* Claims about get_pr_from_travis_commit_sha, checked under SpecTravis.   *)

\* C14 (as claimed): whatever the numbers in the commit message and whatever
\* each of them is on GitHub (a merged pull request, an unmerged one, no
\* pull request), get_pr_from_travis_commit_sha returns None or a pull
\* request that is merged.
C14_ReturnsOnlyMergedPulls ==
    travis_pc = "returned" =>
        \/ issue_object = None
        \/ issue_object.t = "PullRequest" /\ issue_object.merged


====
